---------------------------- MODULE Spec2Model ----------------------------
(***************************************************************************)
(* Photon kernel, x86_64 bring-up: GDT, IDT, exception trampolines, the    *)
(* boot sequence, serial logging and the physical frame allocator,         *)
(* modelled from kernel/src.                                               *)
(*                                                                         *)
(* Machine words of at most 16 bits are naturals.  Wider words (usize,     *)
(* u32, u64) are bit vectors: sequences of 0/1, least significant bit      *)
(* first, so that shifts and truncating casts are computed, not assumed.   *)
(***************************************************************************)
EXTENDS Naturals, Sequences, FiniteSets

\* ------------------------------------------------------------------ bounds
\* Register patterns a trap may interrupt (each gives every register a
\* distinct non-zero value).
NumPatterns == 2
\* Error codes the CPU may push are 1..NumErrorCodes.
NumErrorCodes == 2
\* Stack slots (8 bytes each) below the interrupted code's stack top.
StackSlots == 64
\* set_handler calls a caller of the IDT interface makes on its own.
MaxSetHandlerCalls == 2
\* Addresses and alignments passed to align_down are 0..2^AddrBits - 1.
AddrBits == 5
\* Entries of a bootloader memory map.
MaxEntries == 3
\* Physical memory a memory map describes, in half frames.
MaxGranules == 6
\* allocate_frame calls made on one allocator.
MaxAllocCalls == 4
\* idt::init calls a caller makes on its own.
MaxIdtInitCalls == 3
\* drivers::uart::init calls a caller makes on its own.
MaxUartInitCalls == 2
\* Ranges of the memory map a BootstrapAlloc is built on.
MaxRanges == 2
\* Blocks one BootstrapAlloc hands out.
MaxBootstrapCalls == 2

\* --------------------------------------------------------- bit arithmetic
RECURSIVE BitOr(_, _)
BitOr(a, b) ==
  IF a = 0 THEN b
  ELSE IF b = 0 THEN a
  ELSE (IF a % 2 = 1 \/ b % 2 = 1 THEN 1 ELSE 0) + 2 * BitOr(a \div 2, b \div 2)

RECURSIVE BitAnd(_, _)
BitAnd(a, b) ==
  IF a = 0 \/ b = 0 THEN 0
  ELSE (IF a % 2 = 1 /\ b % 2 = 1 THEN 1 ELSE 0) + 2 * BitAnd(a \div 2, b \div 2)

\* x << n in a w-bit word
Shl(x, n, w) == (x * 2^n) % 2^w

\* bit i (0 = least significant) of a natural
BitOf(x, i) == (x \div 2^i) % 2

\* the w-bit vector of a natural x < 2^w (w <= 16)
Bv(x, w) == [i \in 1..w |-> (x \div 2^(i - 1)) % 2]

BvZero(w) == [i \in 1..w |-> 0]

\* logical shift right / left of a bit vector, width kept
BvShr(b, n) == [i \in 1..Len(b) |-> IF i + n <= Len(b) THEN b[i + n] ELSE 0]
BvShl(b, n) == [i \in 1..Len(b) |-> IF i > n THEN b[i - n] ELSE 0]

\* `as uN`: truncation to the low w bits
BvTrunc(b, w) == SubSeq(b, 1, w)

\* zero extension to w bits
BvExt(b, w) == [i \in 1..w |-> IF i <= Len(b) THEN b[i] ELSE 0]

BvOr(a, b) == [i \in 1..Len(a) |-> IF a[i] = 1 \/ b[i] = 1 THEN 1 ELSE 0]

\* a 64-bit word from four 16-bit limbs, most significant first
U64(w3, w2, w1, w0) == Bv(w0, 16) \o Bv(w1, 16) \o Bv(w2, 16) \o Bv(w3, 16)

\* ------------------------------------------------------- privilege levels
\* arch/x86_64/mod.rs: enum PrivilegeLevel { Kernel = 0, User = 3 }
PrivilegeKernel == 0
PrivilegeUser == 3
PrivilegeLevel == {PrivilegeKernel, PrivilegeUser}

\* ------------------------------------------------------------------- GDT
GDT_ENTRIES == 3

\* SegmentSelector::new shifting the index by 2
SegmentSelector_new_Shl2(index, privilege) == BitOr(Shl(index, 2, 16), privilege)

\* SegmentSelector::new: Self(index << 3 | (privilege as u16))
SegmentSelector_new(index, privilege) == BitOr(Shl(index, 3, 16), privilege)

KERNEL_CODE_SELECTOR == SegmentSelector_new(1, PrivilegeKernel)
KERNEL_DATA_SELECTOR == SegmentSelector_new(2, PrivilegeKernel)

\* hardware's reading of a selector
SelectorIndex(sel) == sel \div 8

\* impl GdtAccessFlags
GdtAccess_RW == Shl(1, 1, 8)
GdtAccess_DESCRIPTOR_TYPE == Shl(1, 4, 8)
GdtAccess_EXECUTABLE == Shl(1, 3, 8)
GdtAccess_KERNEL == Shl(0, 5, 8)
GdtAccess_PRESENT == Shl(1, 7, 8)
\* bit 0 of the access byte, written by the CPU when the segment is loaded
GdtAccess_ACCESSED == Shl(1, 0, 8)

\* bitflags GdtEntryFlags
GdtEntryFlags_PROTECTED_MODE == Shl(1, 6, 8)
GdtEntryFlags_LONG_MODE == Shl(1, 5, 8)
GdtEntryFlags_empty == 0

\* GdtEntry::new that drops its access argument
GdtEntry_new_NoAccess(access, flags) ==
  [limit_low |-> 0, base_low |-> 0, base_middle |-> 0, access |-> 0,
   limit_high_flags |-> BitAnd(flags, 240), base_high |-> 0]

\* GdtEntry::new
GdtEntry_new(access, flags) ==
  [limit_low |-> 0, base_low |-> 0, base_middle |-> 0, access |-> access,
   limit_high_flags |-> BitAnd(flags, 240), base_high |-> 0]

\* static GDT: [GdtEntry; GDT_ENTRIES], indexed from 0
GDT ==
  [i \in 0..(GDT_ENTRIES - 1) |->
     CASE i = 0 -> GdtEntry_new(0, GdtEntryFlags_empty)
       [] i = 1 -> GdtEntry_new(
                     BitOr(BitOr(BitOr(BitOr(GdtAccess_PRESENT, GdtAccess_KERNEL),
                                       GdtAccess_DESCRIPTOR_TYPE),
                                 GdtAccess_EXECUTABLE),
                           GdtAccess_RW),
                     GdtEntryFlags_LONG_MODE)
       [] OTHER -> GdtEntry_new(
                     BitOr(BitOr(BitOr(GdtAccess_PRESENT, GdtAccess_KERNEL),
                                 GdtAccess_DESCRIPTOR_TYPE),
                           GdtAccess_RW),
                     GdtEntryFlags_LONG_MODE)]

\* size_of::<GdtEntry>(): 2 + 2 + 1 + 1 + 1 + 1 bytes, repr(C)
GdtEntrySize == 8

\* GdtDescriptor::new((size_of::<[GdtEntry; GDT_ENTRIES]>() - 1) as u16, addr_of!(GDT))
GdtDescriptor == [size |-> (GDT_ENTRIES * GdtEntrySize - 1) % 65536]

\* ------------------------------------------------------------------- IDT
INTERRUPT_GATE == 14
IDT_ENTRIES == 256

\* IdtEntryAttributes::new without the present bit
IdtEntryAttributes_new_NotPresent(privelege) == BitOr(privelege, INTERRUPT_GATE)

\* IdtEntryAttributes::new: Self(1 << 7 | (privelege as u8) | INTERRUPT_GATE)
IdtEntryAttributes_new(privelege) ==
  BitOr(BitOr(Shl(1, 7, 8), privelege), INTERRUPT_GATE)

IdtEntryAttributes_kernel == IdtEntryAttributes_new(PrivilegeKernel)

\* IdtEntry::new with offset_middle taken from offset >> 8
IdtEntry_new_MidShift8(offset, selector, attributes) ==
  [offset_low |-> BvTrunc(offset, 16), selector |-> selector, ist |-> 0,
   attributes |-> attributes,
   offset_middle |-> BvTrunc(BvShr(offset, 8), 16),
   offset_high |-> BvTrunc(BvShr(offset, 32), 32), reserved |-> 0]

\* IdtEntry::new; offset is a usize (64 bits)
IdtEntry_new(offset, selector, attributes) ==
  [offset_low |-> BvTrunc(offset, 16), selector |-> selector, ist |-> 0,
   attributes |-> attributes,
   offset_middle |-> BvTrunc(BvShr(offset, 16), 16),
   offset_high |-> BvTrunc(BvShr(offset, 32), 32), reserved |-> 0]

\* IdtEntry::EMPTY
IdtEntry_EMPTY == IdtEntry_new(BvZero(64), KERNEL_CODE_SELECTOR, IdtEntryAttributes_kernel)

\* Idt::new: entries: [IdtEntry::EMPTY; IDT_ENTRIES], indexed from 0
Idt_new == [v \in 0..(IDT_ENTRIES - 1) |-> IdtEntry_EMPTY]

\* the handler address the CPU reassembles from a gate descriptor
EntryOffset(e) ==
  BvOr(BvOr(BvExt(e.offset_low, 64), BvShl(BvExt(e.offset_middle, 64), 16)),
       BvShl(BvExt(e.offset_high, 64), 32))

\* set_handler writing the entry after vector as well
set_handler_AlsoNext(t, vector, handler) ==
  [v \in DOMAIN t |->
     IF v = vector \/ v = vector + 1
     THEN IdtEntry_new(handler, KERNEL_CODE_SELECTOR, IdtEntryAttributes_kernel)
     ELSE t[v]]

\* Idt::set_handler(vector, handler): entries[vector] = IdtEntry::new(handler as
\* usize, KERNEL_CODE_SELECTOR, IdtEntryAttributes::kernel())
set_handler(t, vector, handler) ==
  [t EXCEPT ![vector] =
     IdtEntry_new(handler, KERNEL_CODE_SELECTOR, IdtEntryAttributes_kernel)]


\* size_of::<IdtEntry>(): 2 + 2 + 1 + 1 + 2 + 4 + 4 bytes, repr(C)
IdtEntrySize == 16

\* IdtDescriptor::new((size_of::<[IdtEntry; IDT_ENTRIES]>() - 1) as u16, addr_of!(IDT..entries))
IdtDescriptor == [size |-> (IDT_ENTRIES * IdtEntrySize - 1) % 65536]

\* ------------------------------------------------------ exception handlers
\* The trampolines exceptions.rs defines, in definition order.
HandlerNames ==
  <<"divide_by_zero", "debug", "non_maskable_interrupt", "breakpoint", "overflow",
    "bound_range_exceeded", "invalid_opcode", "device_not_available",
    "double_fault", "invalid_tss", "segment_not_present", "stack_segment_fault",
    "general_protection_fault", "page_fault", "x87_floating_point",
    "alignment_check", "machine_check", "simd_floating_point", "virtualization",
    "control_protection", "hypervisor_injection", "vmm_communication",
    "security_exception", "resuming_fault">>

\* a trampoline a caller defines with interrupt_error! around a policy closure
\* that dumps the frame and returns
ResumingHandler == "resuming_fault"

Handlers == {HandlerNames[k] : k \in 1..Len(HandlerNames)}

\* alignment_check defined with interrupt_stack!
ErrorStyleHandlers_NoAlignmentCheck ==
  {"double_fault", "invalid_tss", "segment_not_present", "stack_segment_fault",
   "general_protection_fault", "page_fault",
   "control_protection", "vmm_communication", "security_exception"}

\* the trampolines defined with interrupt_error! (the others use interrupt_stack!)
ErrorStyleHandlers ==
  {"double_fault", "invalid_tss", "segment_not_present", "stack_segment_fault",
   "general_protection_fault", "page_fault", "alignment_check",
   "control_protection", "vmm_communication", "security_exception"}

HandlerStyle(h) ==
  IF h \in ErrorStyleHandlers \cup {ResumingHandler} THEN "error" ELSE "stack"

\* the policy closure returns (breakpoint, and the caller's resuming closure) or
\* ends in panic!() (every other one)
HandlerReturns(h) == h \in {"breakpoint", ResumingHandler}

\* InterruptStackFrame::dump: the scratch, preserved and iret groups, in order
FrameDump == <<"dump scratch", "dump preserved", "dump iret">>

\* what a policy closure logs: breakpoint logs a line and dumps; every other one
\* dumps and panics, and the panic handler logs before it halts
HandlerOutput(h) ==
  IF h = "breakpoint" THEN <<"Breakpoint hit!">> \o FrameDump
  ELSE IF HandlerReturns(h) THEN FrameDump
  ELSE FrameDump \o <<"KERNEL PANIC">>

HandlerIndex(h) == CHOOSE k \in 1..Len(HandlerNames) : HandlerNames[k] = h

\* Link layouts: the four 16-bit limbs of the address the kernel text is linked
\* at (a higher-half layout and a low one).
LinkBases == {<<65535, 65535, 32768, 4096>>, <<0, 0, 32, 4096>>}

\* `handler as usize`: the address of trampoline h under link layout base
HandlerAddr(base, h) == U64(base[1], base[2], base[3], base[4] + 64 * HandlerIndex(h))

\* the trampoline at an address, "null" for address 0, "wild" for any other
HandlerAt(base, addr) ==
  IF addr = BvZero(64) THEN "null"
  ELSE IF \E h \in Handlers : HandlerAddr(base, h) = addr
       THEN CHOOSE h \in Handlers : HandlerAddr(base, h) = addr
       ELSE "wild"

\* the registration with page_fault bound to vector 15 instead of 14
RegistrationList_Without14 ==
  <<<<0, "divide_by_zero">>, <<1, "debug">>, <<2, "non_maskable_interrupt">>,
    <<3, "breakpoint">>, <<4, "overflow">>, <<5, "bound_range_exceeded">>,
    <<6, "invalid_opcode">>, <<7, "device_not_available">>, <<8, "double_fault">>,
    <<10, "invalid_tss">>, <<11, "segment_not_present">>,
    <<12, "stack_segment_fault">>, <<13, "general_protection_fault">>,
    <<15, "page_fault">>, <<16, "x87_floating_point">>,
    <<17, "alignment_check">>, <<18, "machine_check">>,
    <<19, "simd_floating_point">>, <<20, "virtualization">>,
    <<21, "control_protection">>, <<28, "hypervisor_injection">>,
    <<29, "vmm_communication">>, <<30, "security_exception">>>>

\* the set_handler calls of register_exceptions, in order
RegistrationList ==
  <<<<0, "divide_by_zero">>, <<1, "debug">>, <<2, "non_maskable_interrupt">>,
    <<3, "breakpoint">>, <<4, "overflow">>, <<5, "bound_range_exceeded">>,
    <<6, "invalid_opcode">>, <<7, "device_not_available">>, <<8, "double_fault">>,
    <<10, "invalid_tss">>, <<11, "segment_not_present">>,
    <<12, "stack_segment_fault">>, <<13, "general_protection_fault">>,
    <<14, "page_fault">>, <<16, "x87_floating_point">>,
    <<17, "alignment_check">>, <<18, "machine_check">>,
    <<19, "simd_floating_point">>, <<20, "virtualization">>,
    <<21, "control_protection">>, <<28, "hypervisor_injection">>,
    <<29, "vmm_communication">>, <<30, "security_exception">>>>

RECURSIVE RegisterFrom(_, _, _)
RegisterFrom(t, base, k) ==
  IF k > Len(RegistrationList) THEN t
  ELSE RegisterFrom(set_handler(t, RegistrationList[k][1],
                                HandlerAddr(base, RegistrationList[k][2])),
                    base, k + 1)

\* a registration that fills the first entry still empty instead of overwriting
register_exceptions_FirstEmpty(t, base) ==
  LET free == {v \in DOMAIN t : t[v] = IdtEntry_EMPTY}
  IN  IF free = {} THEN t
      ELSE set_handler(t, CHOOSE v \in free : \A u \in free : v <= u,
                       HandlerAddr(base, "divide_by_zero"))

\* register_exceptions(): the table after all its set_handler calls
register_exceptions(t, base) == RegisterFrom(t, base, 1)

\* the vectors register_exceptions passes to set_handler
RegisteredVectors == {RegistrationList[k][1] : k \in 1..Len(RegistrationList)}

\* ------------------------------------------------- interrupt stack frame
\* field order of struct ScratchRegisters / PreservedRegisters / IretRegisters
ScratchFields == <<"r11", "r10", "r9", "r8", "rsi", "rdi", "rdx", "rcx", "rax">>
PreservedFields == <<"r15", "r14", "r13", "r12", "rbp", "rbx">>
IretFields == <<"rip", "cs", "rflags", "rsp", "ss">>

SeqToSet(s) == {s[k] : k \in 1..Len(s)}
ScratchRegs == SeqToSet(ScratchFields)
PreservedRegs == SeqToSet(PreservedFields)
GPRs == ScratchRegs \cup PreservedRegs

\* size_of a repr(C) struct of u64 fields
SizeOf(fields) == 8 * Len(fields)

IndexIn(s, x) == CHOOSE k \in 1..Len(s) : s[k] = x

\* byte offset of a field inside struct InterruptStackFrame { scratch, preserved, iret }
FieldOffset(group, name) ==
  CASE group = "scratch" -> 8 * (IndexIn(ScratchFields, name) - 1)
    [] group = "preserved" ->
         SizeOf(ScratchFields) + 8 * (IndexIn(PreservedFields, name) - 1)
    [] OTHER ->
         SizeOf(ScratchFields) + SizeOf(PreservedFields)
           + 8 * (IndexIn(IretFields, name) - 1)

FrameFields ==
  ({"scratch"} \X ScratchRegs) \cup ({"preserved"} \X PreservedRegs)
    \cup ({"iret"} \X SeqToSet(IretFields))

\* ------------------------------------------------------------ trampolines
Ins(op, r, off) == [op |-> op, r |-> r, off |-> off]
PushAll(rs) == [k \in 1..Len(rs) |-> Ins("push", rs[k], 0)]
PopAll(rs) == [k \in 1..Len(rs) |-> Ins("pop", rs[k], 0)]

\* macro push_scratch / pop_scratch / push_preserved / pop_preserved
push_scratch == PushAll(<<"rcx", "rdx", "rdi", "rsi", "r8", "r9", "r10", "r11">>)
pop_scratch == PopAll(<<"r11", "r10", "r9", "r8", "rsi", "rdi", "rdx", "rcx">>)
push_preserved == PushAll(<<"rbx", "rbp", "r12", "r13", "r14", "r15">>)
pop_preserved == PopAll(<<"r15", "r14", "r13", "r12", "rbp", "rbx">>)

\* rax_offset = size_of::<PreservedRegisters>() + size_of::<ScratchRegisters>() - 8
rax_offset == SizeOf(PreservedFields) + SizeOf(ScratchFields) - 8

\* macro interrupt_stack: the instructions of a stack-style trampoline
interrupt_stack ==
  <<Ins("cld", "", 0), Ins("push", "rax", 0)>> \o push_scratch \o push_preserved
    \o <<Ins("mov_rsp", "rdi", 0), Ins("call", "inner", 0)>>
    \o pop_preserved \o pop_scratch \o <<Ins("iretq", "", 0)>>

\* macro interrupt_error: the instructions of an error-style trampoline
interrupt_error ==
  <<Ins("cld", "", 0)>> \o push_scratch \o push_preserved
    \o <<Ins("load", "rsi", rax_offset), Ins("store", "rax", rax_offset),
         Ins("mov_rsp", "rdi", 0), Ins("call", "inner", 0)>>
    \o pop_preserved \o pop_scratch \o <<Ins("iretq", "", 0)>>

Program(h) == IF HandlerStyle(h) = "error" THEN interrupt_error ELSE interrupt_stack

\* ------------------------------------------------------- hardware contract
\* vectors for which the CPU pushes an error code
ErrorCodeVectors == {8, 10, 11, 12, 13, 14, 17, 21, 29, 30}

\* bit 9 of rflags is IF; bit 1 always reads 1
RflagsImage(if) == 2 + (IF if THEN 512 ELSE 0)
RflagsIF(image) == BitOf(image, 9) = 1


\* ----------------------------------------------------------- memory: addr
RECURSIVE PopCount(_)
PopCount(x) == IF x = 0 THEN 0 ELSE (x % 2) + PopCount(x \div 2)

\* the x & (x - 1) == 0 test, which takes 0 for a power of two
is_power_of_two_OrZero(x) == PopCount(x) <= 1

\* u64::is_power_of_two: exactly one bit set
is_power_of_two(x) == PopCount(x) = 1

\* a & !m on u64 (the bits of a that are not in m)
AndNot(a, m) == a - BitAnd(a, m)

ResultOk(v) == [ok |-> TRUE, err |-> "", val |-> v]
ResultErr(e) == [ok |-> FALSE, err |-> e, val |-> 0]

\* PhysAddr::align_down; `align - 1` on u64 0 is an arithmetic overflow panic
align_down(addr, align) ==
  IF ~is_power_of_two(align) THEN ResultErr("InvalidAlign")
  ELSE IF align = 0 THEN ResultErr("panic")
  ELSE ResultOk(AndNot(addr, align - 1))

\* ------------------------------------------------ memory: frame_allocator
\* impl FrameSize for FrameSize4K
FrameSize4K_SIZE == 4096

\* limine::memory_map::EntryType values a map may carry
EntryTypes == {"USABLE", "RESERVED"}

\* Frame::containing(addr): addr.align_down(S::SIZE)?
Frame_containing(addr) == align_down(addr, FrameSize4K_SIZE)

\* Iterator::find over mmap_iter(): the index of the first entry in ks that
\* satisfies the predicate, 0 for None
FirstOf(ks) == IF ks = {} THEN 0 ELSE CHOOSE k \in ks : \A j \in ks : k <= j

\* BumpFrameAllocator::new: the first USABLE entry (expect() panics without one)
BumpFrameAllocator_new(m) ==
  LET k == FirstOf({j \in 1..Len(m) : m[j].entry_type = "USABLE"})
  IN  [current_base |-> m[k].base, current_end |-> m[k].base + m[k].length]

\* a search that starts over from the first entry instead of at current_end
find_next_FromStart(m, cur_end) ==
  FirstOf({j \in 1..Len(m) : m[j].entry_type = "USABLE"})

\* BumpFrameAllocator::find_next: filter(base > current_end).find(USABLE)
find_next(m, cur_end) ==
  FirstOf({j \in 1..Len(m) : m[j].base > cur_end /\ m[j].entry_type = "USABLE"})

\* map_err(|_| FrameAllocatorError::InvalidFrameSize)
MapErrInvalidFrameSize(r) == IF r.ok THEN r ELSE ResultErr("InvalidFrameSize")

\* memory maps: bases and lengths in half frames, entries sorted by base and
\* non-overlapping, at least one of them USABLE
Granule == FrameSize4K_SIZE \div 2

MapEntries ==
  [base : {Granule * g : g \in 0..(MaxGranules - 1)},
   length : {Granule * g : g \in 1..MaxGranules},
   entry_type : EntryTypes]

\* the maps of at most n entries that lie at or above address lo
RECURSIVE MapsFrom(_, _)
MapsFrom(lo, n) ==
  IF n = 0 THEN {<<>>}
  ELSE {<<>>} \cup
       UNION {{<<e>> \o rest : rest \in MapsFrom(e.base + e.length, n - 1)} :
                e \in {x \in MapEntries :
                         /\ lo <= x.base
                         /\ x.base + x.length <= Granule * MaxGranules}}

MemoryMaps ==
  {m \in MapsFrom(0, MaxEntries) : \E j \in 1..Len(m) : m[j].entry_type = "USABLE"}

\* the map the boot runs are given: two usable regions around a reserved one
BootMap ==
  <<[base |-> 0, length |-> FrameSize4K_SIZE, entry_type |-> "USABLE"],
    [base |-> FrameSize4K_SIZE, length |-> FrameSize4K_SIZE, entry_type |-> "RESERVED"],
    [base |-> 2 * FrameSize4K_SIZE, length |-> FrameSize4K_SIZE, entry_type |-> "USABLE"]>>

\* ------------------------------------------------------- memory: bootstrap
\* HHDM_OFFSET: the bootloader's direct-map offset, scaled to the model's
\* addresses (above every physical address, a multiple of every alignment used)
HHDM_OFFSET == 2^20

\* PhysAddr::as_hhdm_virt followed by VirtAddr::as_mut_ptr
as_hhdm_virt(addr) == HHDM_OFFSET + addr

\* align_up(addr, align); the assert! panics unless align is a power of two
align_up(addr, align) ==
  IF ~is_power_of_two(align) THEN ResultErr("panic")
  ELSE LET mask == align - 1
       IN  IF BitAnd(addr, mask) = 0 THEN ResultOk(addr)
           ELSE ResultOk(BitOr(addr, mask) + 1)

\* an allocate that moves the base of the range but keeps its length
BootstrapAlloc_allocate_KeepLength(m, size) ==
  LET aligned_size == align_up(size, FrameSize4K_SIZE).val
      k == FirstOf({j \in 1..Len(m) :
                     m[j].entry_type = "Free" /\ m[j].length >= aligned_size})
  IN  IF k = 0
      THEN [some |-> FALSE, addr |-> 0, ptr |-> 0, size |-> aligned_size, map |-> m]
      ELSE [some |-> TRUE, addr |-> m[k].base, ptr |-> as_hhdm_virt(m[k].base),
            size |-> aligned_size,
            map |-> [m EXCEPT ![k].base = @ + aligned_size]]

\* BootstrapAlloc::allocate(size) on memory map m: the first Free range that
\* holds the frame-aligned size gives up its head; addr is the physical
\* address taken, ptr the pointer returned, map the memory map afterwards
BootstrapAlloc_allocate(m, size) ==
  LET aligned_size == align_up(size, FrameSize4K_SIZE).val
      k == FirstOf({j \in 1..Len(m) :
                     m[j].entry_type = "Free" /\ m[j].length >= aligned_size})
  IN  IF k = 0
      THEN [some |-> FALSE, addr |-> 0, ptr |-> 0, size |-> aligned_size, map |-> m]
      ELSE [some |-> TRUE, addr |-> m[k].base, ptr |-> as_hhdm_virt(m[k].base),
            size |-> aligned_size,
            map |-> [m EXCEPT ![k].base = @ + aligned_size,
                              ![k].length = @ - aligned_size]]

\* the memory maps a BootstrapAlloc is built on: ranges in half frames, sorted
\* by base and non-overlapping; the bootloader reports free ranges at
\* frame-aligned bases
RangeTypes == {"Free", "Reserved"}

Ranges ==
  {x \in [base : {Granule * g : g \in 0..(MaxGranules - 1)},
          length : {Granule * g : g \in 1..MaxGranules},
          entry_type : RangeTypes] :
     x.entry_type = "Free" => x.base % FrameSize4K_SIZE = 0}

RECURSIVE RangeMapsFrom(_, _)
RangeMapsFrom(lo, n) ==
  IF n = 0 THEN {<<>>}
  ELSE {<<>>} \cup
       UNION {{<<e>> \o rest : rest \in RangeMapsFrom(e.base + e.length, n - 1)} :
                e \in {x \in Ranges :
                         /\ lo <= x.base
                         /\ x.base + x.length <= Granule * MaxGranules}}

RangeMaps == RangeMapsFrom(0, MaxRanges) \ {<<>>}

\* the layouts a caller asks for: Layout keeps align a power of two
LayoutSizes == {0, 1, FrameSize4K_SIZE + 1}
LayoutAligns == {1, 2 * FrameSize4K_SIZE}

\* the map the other runs leave untouched
BootRanges ==
  <<[base |-> 0, length |-> FrameSize4K_SIZE, entry_type |-> "Free"]>>


\* ------------------------------------------------------------------ state
VARIABLES
  pc,         \* position of the boot thread in x86_64_main / kmain
  trace,      \* history: the boot steps executed so far, in order
  fbi,        \* kmain's framebuffer loop counter i
  com1,       \* COM_1 has been set (drivers::uart::init succeeded)
  loggerSet,  \* log::set_logger has been called
  iflag,      \* the CPU's interrupt flag (rflags.IF)
  gdt,        \* the GDT in memory (the CPU writes the accessed bits)
  gdtr,       \* the CPU's GDT register
  seg,        \* the segment registers
  idt,        \* IDT.entries
  idtr,       \* the CPU's IDT register
  idtLock,    \* IDT's spin mutex is held
  handlerOf,  \* history: vector -> the handler last passed to set_handler for it
  calls,      \* history: direct set_handler calls made
  regRun,     \* history: register_exceptions calls made in a row
  textBase,   \* the link layout
  regs,       \* general-purpose registers
  rsp,        \* stack pointer (byte address)
  rip,        \* instruction pointer of the code running outside any handler
  mem,        \* stack memory, one value per 8-byte slot
  trap,       \* the trap being handled, if any
  pre,        \* history: the CPU state immediately before the outermost trap
  seen,       \* history: what the inner handler was passed
  com1Lock,   \* COM_1's spin mutex is held (by the code a trap interrupts)
  sink,       \* history: what has been written to the serial port, in order
  ret,        \* the call of a pure helper a run makes: its arguments and its result
  mmap,       \* the bootloader's memory map (mem_map::mmap_iter yields it)
  current_base, \* BumpFrameAllocator.current_base
  current_end,  \* BumpFrameAllocator.current_end
  allocated,  \* history: the result of every allocate_frame call, in order
  memory_map, \* BootstrapAlloc.memory_map
  initial_map, \* history: the memory map BootstrapAlloc::new was given
  blocks      \* history: the blocks BootstrapAlloc::allocate handed out, in order

bootVars == <<pc, trace, fbi, com1, loggerSet>>
gdtVars == <<gdt, gdtr, seg>>
idtVars == <<idt, idtr, idtLock>>
idtHist == <<handlerOf, calls, regRun>>
cpuVars == <<iflag, regs, rsp, rip, mem, trap, pre, seen>>
logVars == <<com1Lock, sink>>
allocVars == <<mmap, current_base, current_end, allocated>>
bootstrapVars == <<memory_map, initial_map, blocks>>
libVars == <<ret, allocVars, bootstrapVars>>
vars == <<bootVars, gdtVars, idtVars, idtHist, textBase, cpuVars, logVars, libVars>>

\* selectors the bootloader hands over (its own GDT: code at index 5, data at 6)
BootSeg ==
  [r \in {"cs", "ds", "es", "fs", "gs", "ss"} |->
     IF r = "cs" THEN SegmentSelector_new(5, PrivilegeKernel)
     ELSE SegmentSelector_new(6, PrivilegeKernel)]

GPRSeq == ScratchFields \o PreservedFields

\* register pattern p: a distinct non-zero value in every register
PatternRegs(p) == [r \in GPRs |-> 100 * p + IndexIn(GPRSeq, r)]
CodeRip(p) == 7000 + p

\* the address of instruction ip of trampoline h (an opaque code address)
TrampRip(h, ip) == 9000 + 100 * HandlerIndex(h) + ip

NoTrap ==
  [state |-> "none", handler |-> "", ip |-> 0, vector |-> 0, origin |-> 0,
   err |-> 0, nested |-> FALSE, returned |-> FALSE]

NoPre ==
  [valid |-> FALSE, regs |-> [r \in GPRs |-> 0], rsp |-> 0, rip |-> 0,
   rflags |-> 0, cs |-> 0, ss |-> 0, err |-> 0, vector |-> 0, ripSlot |-> 0]

NoSeen ==
  [valid |-> FALSE, handler |-> "", nested |-> FALSE, err |-> 0,
   frame |-> [f \in FrameFields |-> 0]]

StackTop == 8 * StackSlots

InitCpu ==
  /\ iflag = FALSE
  /\ \E p \in 1..NumPatterns : regs = PatternRegs(p) /\ rip = CodeRip(p)
  /\ rsp \in {StackTop, StackTop - 8}
  /\ mem = [s \in 0..(StackSlots - 1) |-> 0]
  /\ trap = NoTrap
  /\ pre = NoPre
  /\ seen = NoSeen

\* a CPU that takes no trap: one register pattern
InitCpuIdle ==
  /\ iflag = FALSE
  /\ regs = PatternRegs(1)
  /\ rip = CodeRip(1)
  /\ rsp = StackTop
  /\ mem = [s \in 0..(StackSlots - 1) |-> 0]
  /\ trap = NoTrap
  /\ pre = NoPre
  /\ seen = NoSeen

InitIdt ==
  /\ idt = Idt_new
  /\ idtr = [loaded |-> FALSE, size |-> 0]
  /\ idtLock = FALSE
  /\ handlerOf = [v \in {} |-> BvZero(64)]
  /\ calls = 0
  /\ regRun = 0
  /\ textBase \in LinkBases

NoCall == [fn |-> "none", a |-> 0, b |-> 0, res |-> ResultOk(0)]

\* COM_1 unlocked and nothing written yet
InitLog ==
  /\ com1Lock = FALSE
  /\ sink = <<>>

\* no helper called; the frame allocator built by BumpFrameAllocator::new
InitAlloc(m) ==
  /\ mmap = m
  /\ current_base = BumpFrameAllocator_new(m).current_base
  /\ current_end = BumpFrameAllocator_new(m).current_end
  /\ allocated = <<>>

\* BootstrapAlloc::new(memory_map)
InitBootstrap(m) ==
  /\ memory_map = m
  /\ initial_map = m
  /\ blocks = <<>>

InitLib ==
  /\ ret = NoCall
  /\ InitAlloc(BootMap)
  /\ InitBootstrap(BootRanges)

\* entry into x86_64_main: interrupts masked, the bootloader's segments in use
Init ==
  /\ pc = "start"
  /\ trace = <<>>
  /\ fbi = 0
  /\ com1 = FALSE
  /\ loggerSet = FALSE
  /\ gdt = GDT
  /\ gdtr = [loaded |-> FALSE, size |-> 0]
  /\ seg = BootSeg
  /\ InitIdt
  /\ InitCpu
  /\ InitLog
  /\ InitLib

Running == trap.state = "none"

Step(from, to, name) ==
  /\ Running
  /\ pc = from
  /\ pc' = to
  /\ trace' = Append(trace, name)

\* ------------------------------------------------------------------ logging
\* KernelLogger::log through serial_print_internal, with COM_1's lock free: the
\* line is written if the logger is installed (set_logger) and COM_1 is set
LogWrite(isLogger, isCom1, out, lines) ==
  IF isLogger /\ isCom1 THEN out \o lines ELSE out

\* ------------------------------------------------------- boot: x86_64_main
\* disable_interrupts() executing sti instead of cli
DisableInterrupts_Sti ==
  /\ Step("start", "uart_init", "cli")
  /\ iflag' = TRUE
  /\ UNCHANGED <<fbi, com1, loggerSet, gdtVars, idtVars, idtHist, textBase, logVars, libVars,
                 regs, rsp, rip, mem, trap, pre, seen>>

\* disable_interrupts(): cli
DisableInterrupts ==
  /\ Step("start", "uart_init", "cli")
  /\ iflag' = FALSE
  /\ UNCHANGED <<fbi, com1, loggerSet, gdtVars, idtVars, idtHist, textBase, logVars, libVars,
                 regs, rsp, rip, mem, trap, pre, seen>>

\* drivers::uart::init(): the self-test passes and COM_1 is set, or
\* expect() panics and the panic handler halts
UartInit ==
  /\ \E selfTest \in BOOLEAN :
       IF selfTest
       THEN Step("uart_init", "logger_init", "uart_init") /\ com1' = TRUE
       ELSE Step("uart_init", "panic_halt", "panic") /\ com1' = com1
  /\ UNCHANGED <<fbi, loggerSet, gdtVars, idtVars, idtHist, textBase, logVars, libVars, cpuVars>>

\* logger::init(); log::debug!("Serial logger initialized!")
LoggerInit ==
  /\ Step("logger_init", "load_gdt", "logger_init")
  /\ loggerSet' = TRUE
  /\ sink' = LogWrite(TRUE, com1, sink, <<"Serial logger initialized!">>)
  /\ UNCHANGED <<fbi, com1, gdtVars, idtVars, idtHist, textBase, com1Lock, libVars, cpuVars>>

\* gdt::init: log::debug!("GDT Descriptor: ..."); load_gdt(&descriptor): lgdt
LoadGdt ==
  /\ Step("load_gdt", "load_cs", "lgdt")
  /\ gdtr' = [loaded |-> TRUE, size |-> GdtDescriptor.size]
  /\ sink' = LogWrite(loggerSet, com1, sink, <<"GDT Descriptor">>)
  /\ UNCHANGED <<fbi, com1, loggerSet, gdt, seg, idtVars, idtHist, textBase, com1Lock, libVars, cpuVars>>

\* the CPU loading selector sel into segment register r: the descriptor is read
\* from the table gdtr points at and its accessed bit is written back
LoadSeg(r, sel) ==
  /\ gdtr.loaded
  /\ SelectorIndex(sel) * GdtEntrySize + GdtEntrySize - 1 <= gdtr.size
  /\ seg' = [seg EXCEPT ![r] = sel]
  /\ gdt' = [gdt EXCEPT ![SelectorIndex(sel)].access = BitOr(@, GdtAccess_ACCESSED)]
  /\ UNCHANGED gdtr

\* load_cs(KERNEL_CODE_SELECTOR): push selector, push return address, retfq
LoadCs ==
  /\ Step("load_cs", "load_ds", "load_cs")
  /\ LoadSeg("cs", KERNEL_CODE_SELECTOR)
  /\ UNCHANGED <<fbi, com1, loggerSet, idtVars, idtHist, textBase, logVars, libVars, cpuVars>>

\* load_ds(KERNEL_DATA_SELECTOR)
LoadDs ==
  /\ Step("load_ds", "load_es", "load_ds")
  /\ LoadSeg("ds", KERNEL_DATA_SELECTOR)
  /\ UNCHANGED <<fbi, com1, loggerSet, idtVars, idtHist, textBase, logVars, libVars, cpuVars>>

\* load_es(KERNEL_DATA_SELECTOR)
LoadEs ==
  /\ Step("load_es", "load_fs", "load_es")
  /\ LoadSeg("es", KERNEL_DATA_SELECTOR)
  /\ UNCHANGED <<fbi, com1, loggerSet, idtVars, idtHist, textBase, logVars, libVars, cpuVars>>

\* load_fs(KERNEL_DATA_SELECTOR), which gdt::init calls twice in a row
LoadFs ==
  /\ \/ Step("load_fs", "load_fs_again", "load_fs")
     \/ Step("load_fs_again", "load_gs", "load_fs")
  /\ LoadSeg("fs", KERNEL_DATA_SELECTOR)
  /\ UNCHANGED <<fbi, com1, loggerSet, idtVars, idtHist, textBase, logVars, libVars, cpuVars>>

\* the load_gs step loading fs once more
LoadGs_IntoFs ==
  /\ Step("load_gs", "load_ss", "load_gs")
  /\ LoadSeg("fs", KERNEL_DATA_SELECTOR)
  /\ UNCHANGED <<fbi, com1, loggerSet, idtVars, idtHist, textBase, logVars, libVars, cpuVars>>

\* load_gs(KERNEL_DATA_SELECTOR)
LoadGs ==
  /\ Step("load_gs", "load_ss", "load_gs")
  /\ LoadSeg("gs", KERNEL_DATA_SELECTOR)
  /\ UNCHANGED <<fbi, com1, loggerSet, idtVars, idtHist, textBase, logVars, libVars, cpuVars>>

\* load_ss(KERNEL_DATA_SELECTOR); gdt::init returns; log::debug!("GDT... OK!")
LoadSs ==
  /\ Step("load_ss", "idt_init", "load_ss")
  /\ LoadSeg("ss", KERNEL_DATA_SELECTOR)
  /\ sink' = LogWrite(loggerSet, com1, sink, <<"GDT... OK!">>)
  /\ UNCHANGED <<fbi, com1, loggerSet, idtVars, idtHist, textBase, com1Lock, libVars, cpuVars>>

\* interrupts::idt::init(): IDT.lock() for the length of the addr_of! statement,
\* then load_idt(&idt_descriptor): lidt
IdtInit ==
  /\ Step("idt_init", "kmain", "lidt")
  /\ ~idtLock
  /\ idtLock' = FALSE
  /\ idtr' = [loaded |-> TRUE, size |-> IdtDescriptor.size]
  /\ sink' = LogWrite(loggerSet, com1, sink, <<"IDT Descriptor">>)
  /\ UNCHANGED <<fbi, com1, loggerSet, gdtVars, idt, idtHist, textBase, com1Lock, libVars, cpuVars>>

\* ------------------------------------------------------------ boot: kmain
PixelCount == 100

\* log::debug!("Dropped into kmain!"), first half: serial_print_internal takes
\* COM_1's lock (nothing else holds it while the boot thread runs)
KmainLogLock ==
  /\ Step("kmain", "kmain_logging", "log_lock")
  /\ com1 /\ loggerSet
  /\ ~com1Lock
  /\ com1Lock' = TRUE
  /\ UNCHANGED <<fbi, com1, loggerSet, gdtVars, idtVars, idtHist, textBase, sink, libVars, cpuVars>>

\* second half: write_fmt writes the line and the guard is dropped
KmainLogWrite ==
  /\ Step("kmain_logging", "kmain_assert", "log_write")
  /\ sink' = Append(sink, "Dropped into kmain!")
  /\ com1Lock' = FALSE
  /\ UNCHANGED <<fbi, com1, loggerSet, gdtVars, idtVars, idtHist, textBase, libVars, cpuVars>>

\* assert!(BASE_REVISION.is_supported()), whose failure reaches the panic handler
\* (log::error!, then halt), then the framebuffer request
KmainEnter ==
  /\ \E supported \in BOOLEAN, framebuffer \in BOOLEAN :
       IF ~supported
       THEN /\ Step("kmain_assert", "panic_halt", "panic")
            /\ sink' = LogWrite(loggerSet, com1, sink, <<"KERNEL PANIC">>)
       ELSE /\ IF framebuffer THEN Step("kmain_assert", "pixels", "kmain")
               ELSE Step("kmain_assert", "enable", "kmain")
            /\ sink' = sink
  /\ UNCHANGED <<fbi, com1, loggerSet, gdtVars, idtVars, idtHist, textBase, com1Lock, libVars, cpuVars>>

\* for i in 0..100_u64 { framebuffer write }
PixelWrite ==
  /\ Running
  /\ pc = "pixels"
  /\ fbi < PixelCount
  /\ fbi' = fbi + 1
  /\ pc' = IF fbi + 1 = PixelCount THEN "enable" ELSE pc
  /\ UNCHANGED <<trace, com1, loggerSet, gdtVars, idtVars, idtHist, textBase, logVars, libVars, cpuVars>>

\* sti followed by the registration of the exception handlers
EnableInterrupts_Registering ==
  /\ Step("enable", "halt", "sti")
  /\ iflag' = TRUE
  /\ idt' = register_exceptions(idt, textBase)
  /\ UNCHANGED <<fbi, com1, loggerSet, gdtVars, idtr, idtLock, idtHist, textBase,
                 logVars, libVars, regs, rsp, rip, mem, trap, pre, seen>>

\* arch::enable_interrupts(): sti
EnableInterrupts ==
  /\ Step("enable", "halt", "sti")
  /\ iflag' = TRUE
  /\ UNCHANGED <<fbi, com1, loggerSet, gdtVars, idtVars, idtHist, textBase, logVars, libVars,
                 regs, rsp, rip, mem, trap, pre, seen>>


\* ------------------------------------------------------------ IDT interface
\* the handler addresses a caller passes to set_handler on its own
TestAddrs(base) == {U64(43981, 4660, 22136, 39612), HandlerAddr(base, "breakpoint")}

\* the vectors it passes: registered ones (3, 14) and unregistered ones
TestVectors == {3, 9, 14, 31, IDT_ENTRIES - 1}

MaxRegisterCalls == 2

Remember(h, v, a) == [x \in DOMAIN h \cup {v} |-> IF x = v THEN a ELSE h[x]]

RECURSIVE RememberFrom(_, _, _)
RememberFrom(h, base, k) ==
  IF k > Len(RegistrationList) THEN h
  ELSE RememberFrom(Remember(h, RegistrationList[k][1],
                             HandlerAddr(base, RegistrationList[k][2])),
                    base, k + 1)

\* IDT.lock().set_handler(vector, handler)
CallSetHandler ==
  /\ pc = "idt_api"
  /\ ~idtLock
  /\ calls < MaxSetHandlerCalls
  /\ \E v \in TestVectors, a \in TestAddrs(textBase) :
       /\ idt' = set_handler(idt, v, a)
       /\ handlerOf' = Remember(handlerOf, v, a)
  /\ calls' = calls + 1
  /\ regRun' = 0
  /\ idtLock' = FALSE
  /\ UNCHANGED <<bootVars, gdtVars, idtr, textBase, logVars, libVars, cpuVars>>

\* register_exceptions(): IDT.lock(), the 23 set_handler calls, the guard dropped
CallRegisterExceptions ==
  /\ pc \in {"idt_api", "register"}
  /\ Running
  /\ ~idtLock
  /\ regRun < MaxRegisterCalls
  /\ idt' = register_exceptions(idt, textBase)
  /\ handlerOf' = RememberFrom(handlerOf, textBase, 1)
  /\ regRun' = regRun + 1
  /\ idtLock' = FALSE
  /\ pc' = IF pc = "register" THEN "idt_init" ELSE pc
  /\ trace' = Append(trace, "register_exceptions")
  /\ UNCHANGED <<fbi, com1, loggerSet, gdtVars, idtr, calls, textBase, logVars, libVars, cpuVars>>

\* ------------------------------------------------- the IDT lock, step by step
\* IDT.lock(): taken when free; a spin::Mutex that is held spins its caller
\* for ever
LockIdt(to) ==
  IF idtLock
  THEN pc' = "idt_lock_spin" /\ idtLock' = idtLock
  ELSE pc' = to /\ idtLock' = TRUE

\* idt::init calls completed
IdtInitCalls == Cardinality({i \in 1..Len(trace) : trace[i] = "lidt"})

\* register_exceptions: `let mut idt = IDT.lock();`
RegisterLock ==
  /\ pc = "idt_api"
  /\ regRun < MaxRegisterCalls
  /\ LockIdt("registering")
  /\ UNCHANGED <<trace, fbi, com1, loggerSet, gdtVars, idt, idtr, idtHist, textBase,
                 logVars, libVars, cpuVars>>

\* a register_exceptions whose guard is never dropped
RegisterStore_KeepLock ==
  /\ pc = "registering"
  /\ idt' = register_exceptions(idt, textBase)
  /\ handlerOf' = RememberFrom(handlerOf, textBase, 1)
  /\ regRun' = regRun + 1
  /\ idtLock' = TRUE
  /\ pc' = "idt_api"
  /\ trace' = Append(trace, "register_exceptions")
  /\ UNCHANGED <<fbi, com1, loggerSet, gdtVars, idtr, calls, textBase, logVars,
                 libVars, cpuVars>>

\* register_exceptions: the 23 set_handler calls through the guard, which is
\* dropped when the function returns
RegisterStore ==
  /\ pc = "registering"
  /\ idt' = register_exceptions(idt, textBase)
  /\ handlerOf' = RememberFrom(handlerOf, textBase, 1)
  /\ regRun' = regRun + 1
  /\ idtLock' = FALSE
  /\ pc' = "idt_api"
  /\ trace' = Append(trace, "register_exceptions")
  /\ UNCHANGED <<fbi, com1, loggerSet, gdtVars, idtr, calls, textBase, logVars,
                 libVars, cpuVars>>

\* idt::init: IDT.lock() inside the `let idt_descriptor = ...` statement
IdtInitLock ==
  /\ pc = "idt_api"
  /\ IdtInitCalls < MaxIdtInitCalls
  /\ LockIdt("idt_init_locked")
  /\ UNCHANGED <<trace, fbi, com1, loggerSet, gdtVars, idt, idtr, idtHist, textBase,
                 logVars, libVars, cpuVars>>

\* idt::init: the address of the entries is taken and the statement ends, which
\* drops the temporary guard
IdtInitDescriptor ==
  /\ pc = "idt_init_locked"
  /\ idtLock' = FALSE
  /\ pc' = "idt_init_log"
  /\ UNCHANGED <<trace, fbi, com1, loggerSet, gdtVars, idt, idtr, idtHist, textBase,
                 logVars, libVars, cpuVars>>

\* idt::init: log::debug!("IDT Descriptor: ...")
IdtInitLog ==
  /\ pc = "idt_init_log"
  /\ sink' = LogWrite(loggerSet, com1, sink, <<"IDT Descriptor">>)
  /\ pc' = "idt_init_lidt"
  /\ UNCHANGED <<trace, fbi, com1, loggerSet, gdtVars, idtVars, idtHist, textBase,
                 com1Lock, libVars, cpuVars>>

\* idt::init: load_idt(&idt_descriptor): lidt, and the return
IdtInitLidt ==
  /\ pc = "idt_init_lidt"
  /\ idtr' = [loaded |-> TRUE, size |-> IdtDescriptor.size]
  /\ pc' = "idt_api"
  /\ trace' = Append(trace, "lidt")
  /\ UNCHANGED <<fbi, com1, loggerSet, gdtVars, idt, idtLock, idtHist, textBase,
                 logVars, libVars, cpuVars>>

\* ------------------------------------------------------------- pure helpers
\* SegmentSelector::new(index, privilege) called by a caller of its own
CallSegmentSelectorNew ==
  /\ pc = "lib"
  /\ ret = NoCall
  /\ \E index \in 0..(GDT_ENTRIES - 1), privilege \in PrivilegeLevel :
       ret' = [fn |-> "SegmentSelector::new", a |-> index, b |-> privilege,
               res |-> ResultOk(SegmentSelector_new(index, privilege))]
  /\ UNCHANGED <<bootVars, gdtVars, idtVars, idtHist, textBase, cpuVars, logVars,
                 allocVars, bootstrapVars>>

\* drivers::uart::init() called by a caller of its own: expect() panics when
\* the self-test fails; COM_1.call_once stores the port on the first call and
\* keeps the stored one on a later call; then init returns
CallUartInit ==
  /\ pc = "lib"
  /\ ret = NoCall
  /\ Len(trace) < MaxUartInitCalls
  /\ \E selfTest \in BOOLEAN :
       IF selfTest
       THEN /\ pc' = pc
            /\ trace' = Append(trace, "uart_init")
            /\ com1' = TRUE
       ELSE /\ pc' = "panic_halt"
            /\ trace' = Append(trace, "panic")
            /\ com1' = com1
  /\ UNCHANGED <<fbi, loggerSet, gdtVars, idtVars, idtHist, textBase, logVars,
                 libVars, cpuVars>>

\* IdtEntryAttributes::new(privelege) called by a caller of its own
CallIdtEntryAttributesNew ==
  /\ pc = "lib"
  /\ ret = NoCall
  /\ \E privelege \in PrivilegeLevel :
       ret' = [fn |-> "IdtEntryAttributes::new", a |-> privelege, b |-> 0,
               res |-> ResultOk(IdtEntryAttributes_new(privelege))]
  /\ UNCHANGED <<bootVars, gdtVars, idtVars, idtHist, textBase, cpuVars, logVars,
                 allocVars, bootstrapVars>>

\* PhysAddr::new(addr).align_down(align)
CallAlignDown ==
  /\ pc = "lib"
  /\ ret = NoCall
  /\ \E addr \in 0..(2^AddrBits - 1), align \in 0..(2^AddrBits - 1) :
       ret' = [fn |-> "align_down", a |-> addr, b |-> align,
               res |-> align_down(addr, align)]
  /\ UNCHANGED <<bootVars, gdtVars, idtVars, idtHist, textBase, cpuVars, logVars,
                 allocVars, bootstrapVars>>

\* -------------------------------------------------------- frame allocator
\* BumpFrameAllocator::allocate_frame
AllocateFrame ==
  /\ pc = "lib"
  /\ Len(allocated) < MaxAllocCalls
  /\ IF current_base + FrameSize4K_SIZE <= current_end
     THEN /\ allocated' =
               Append(allocated, MapErrInvalidFrameSize(Frame_containing(current_base)))
          /\ current_base' = current_base + FrameSize4K_SIZE
          /\ current_end' = current_end
     ELSE LET k == find_next(mmap, current_end)
          IN  IF k = 0
              THEN /\ allocated' = Append(allocated, ResultErr("NoFreeFrames"))
                   /\ UNCHANGED <<current_base, current_end>>
              ELSE /\ allocated' =
                        Append(allocated,
                               MapErrInvalidFrameSize(Frame_containing(mmap[k].base)))
                   /\ current_base' = mmap[k].base + FrameSize4K_SIZE
                   /\ current_end' = mmap[k].base + mmap[k].length
  /\ UNCHANGED <<bootVars, gdtVars, idtVars, idtHist, textBase, cpuVars, logVars,
                 ret, mmap, bootstrapVars>>

\* ---------------------------------------------------- bootstrap allocator
\* <BootstrapAllocRef as Allocator>::allocate(layout)
BootstrapAllocRefAllocate ==
  /\ pc = "lib"
  /\ \E size \in LayoutSizes, align \in LayoutAligns :
       LET aligned_size == align_up(size, align).val
           r == BootstrapAlloc_allocate(memory_map, aligned_size)
       IN  /\ r.some => Len(blocks) < MaxBootstrapCalls
           /\ memory_map' = r.map
           /\ blocks' = IF r.some
                         THEN Append(blocks, [addr |-> r.addr, size |-> r.size])
                         ELSE blocks
           /\ ret' = [fn |-> "BootstrapAllocRef::allocate", a |-> size, b |-> align,
                      res |-> IF r.some THEN ResultOk(r.ptr)
                              ELSE ResultErr("AllocError")]
  /\ UNCHANGED <<bootVars, gdtVars, idtVars, idtHist, textBase, cpuVars, logVars,
                 allocVars, initial_map>>

\* -------------------------------------------------------------- trap entry
\* The CPU vectoring through gate v with return address retRip: the stack is
\* aligned to 16 bytes, ss, rsp, rflags, cs, rip (and the error code, for the
\* vectors that have one) are pushed, an interrupt gate clears IF, and control
\* goes to the offset the descriptor encodes.
Deliver(v, err, retRip, origin, nested) ==
  LET base == (rsp \div 16) * 16
      frame == <<seg.ss, rsp, RflagsImage(iflag), seg.cs, retRip>>
                 \o (IF v \in ErrorCodeVectors THEN <<err>> ELSE <<>>)
      newRsp == base - 8 * Len(frame)
      e == idt[v]
      target == HandlerAt(textBase, EntryOffset(e))
  IN  /\ base >= 8 * Len(frame)
      /\ mem' = [s \in DOMAIN mem |->
                   IF 8 * s >= newRsp /\ 8 * s < base
                   THEN frame[(base - 8 * s) \div 8] ELSE mem[s]]
      /\ rsp' = newRsp
      /\ iflag' = IF BitAnd(e.attributes, 15) = INTERRUPT_GATE THEN FALSE ELSE iflag
      /\ seg' = [seg EXCEPT !["cs"] = e.selector]
      /\ trap' = [state |-> IF BitOf(e.attributes, 7) = 0 THEN "not_present"
                            ELSE IF target \in Handlers THEN "tramp" ELSE target,
                  handler |-> target, ip |-> 1, vector |-> v, origin |-> origin,
                  err |-> IF v \in ErrorCodeVectors THEN err ELSE 0,
                  nested |-> nested, returned |-> FALSE]

\* the points of the boot thread at which a trap is delivered
TrapPoints == {"kmain", "kmain_logging", "halt"}

\* an exception or interrupt on vector v while no handler runs
Trap ==
  /\ Running
  /\ idtr.loaded
  /\ pc \in TrapPoints
  /\ \E v \in 0..(IDT_ENTRIES - 1) :
       /\ v >= 32 => iflag
       /\ \E err \in (IF v \in ErrorCodeVectors THEN 1..NumErrorCodes ELSE {0}) :
            /\ Deliver(v, err, rip, v, FALSE)
            /\ pre' = [valid |-> TRUE, regs |-> regs, rsp |-> rsp, rip |-> rip,
                       rflags |-> RflagsImage(iflag), cs |-> seg.cs, ss |-> seg.ss,
                       err |-> err, vector |-> v,
                       ripSlot |-> (rsp \div 16) * 16 - 8 * Len(IretFields)]
  /\ UNCHANGED <<bootVars, gdt, gdtr, idtVars, idtHist, textBase, logVars, libVars, regs, rip, seen>>

\* -------------------------------------------------------------- trampolines
InTramp == trap.state = "tramp"
Cur == Program(trap.handler)[trap.ip]
Advance == trap' = [trap EXCEPT !.ip = @ + 1]
Slot(addr) == addr \div 8

\* cld
ExecCld ==
  /\ InTramp /\ Cur.op = "cld"
  /\ Advance
  /\ UNCHANGED <<bootVars, gdtVars, idtVars, idtHist, textBase, logVars, libVars,
                 iflag, regs, rsp, rip, mem, pre, seen>>

\* push r
ExecPush ==
  /\ InTramp /\ Cur.op = "push"
  /\ rsp >= 8
  /\ mem' = [mem EXCEPT ![Slot(rsp - 8)] = regs[Cur.r]]
  /\ rsp' = rsp - 8
  /\ Advance
  /\ UNCHANGED <<bootVars, gdtVars, idtVars, idtHist, textBase, logVars, libVars,
                 iflag, regs, rip, pre, seen>>

\* pop r
ExecPop ==
  /\ InTramp /\ Cur.op = "pop"
  /\ regs' = [regs EXCEPT ![Cur.r] = mem[Slot(rsp)]]
  /\ rsp' = rsp + 8
  /\ Advance
  /\ UNCHANGED <<bootVars, gdtVars, idtVars, idtHist, textBase, logVars, libVars,
                 iflag, rip, mem, pre, seen>>

\* mov r, rsp
ExecMovRsp ==
  /\ InTramp /\ Cur.op = "mov_rsp"
  /\ regs' = [regs EXCEPT ![Cur.r] = rsp]
  /\ Advance
  /\ UNCHANGED <<bootVars, gdtVars, idtVars, idtHist, textBase, logVars, libVars,
                 iflag, rsp, rip, mem, pre, seen>>

\* mov r, [rsp + off]
ExecLoad ==
  /\ InTramp /\ Cur.op = "load"
  /\ regs' = [regs EXCEPT ![Cur.r] = mem[Slot(rsp + Cur.off)]]
  /\ Advance
  /\ UNCHANGED <<bootVars, gdtVars, idtVars, idtHist, textBase, logVars, libVars,
                 iflag, rsp, rip, mem, pre, seen>>

\* mov [rsp + off], r
ExecStore ==
  /\ InTramp /\ Cur.op = "store"
  /\ mem' = [mem EXCEPT ![Slot(rsp + Cur.off)] = regs[Cur.r]]
  /\ Advance
  /\ UNCHANGED <<bootVars, gdtVars, idtVars, idtHist, textBase, logVars, libVars,
                 iflag, regs, rsp, rip, pre, seen>>

\* what inner reads through its &mut InterruptStackFrame argument (rdi)
Overlay(fp) == [f \in FrameFields |-> mem[Slot(fp + FieldOffset(f[1], f[2]))]]

\* call {inner}: the return address is pushed and inner runs the policy closure
\* on the frame rdi points at (with rsi as error_code in an error-style
\* trampoline).  A closure that ends in panic!() reaches the panic handler,
\* which halts; breakpoint's returns, with the caller-saved registers in
\* whatever state the compiled body left them.
\* Every log line goes through serial_print_internal, whose COM_1.lock() spins
\* while the lock is held: with the interrupted code holding it, the closure's
\* first log call never returns.
ExecCall ==
  /\ InTramp /\ Cur.op = "call"
  /\ rsp >= 8
  /\ seen' = [valid |-> TRUE, handler |-> trap.handler, nested |-> trap.nested,
              err |-> IF HandlerStyle(trap.handler) = "error" THEN regs["rsi"] ELSE 0,
              frame |-> Overlay(regs["rdi"])]
  /\ mem' = [mem EXCEPT ![Slot(rsp - 8)] = TrampRip(trap.handler, trap.ip + 1)]
  /\ IF loggerSet /\ com1 /\ com1Lock
     THEN /\ trap' = [trap EXCEPT !.state = "spin"]
          /\ regs' = regs
          /\ sink' = sink
     ELSE /\ sink' = LogWrite(loggerSet, com1, sink, HandlerOutput(trap.handler))
          /\ IF HandlerReturns(trap.handler)
             THEN /\ Advance
                  /\ \E clobber \in BOOLEAN :
                       regs' = [r \in GPRs |->
                                  IF clobber /\ r \in ScratchRegs THEN 0 ELSE regs[r]]
             ELSE /\ trap' = [trap EXCEPT !.state = "halted"]
                  /\ regs' = regs
  /\ UNCHANGED <<bootVars, gdtVars, idtVars, idtHist, textBase, com1Lock, libVars,
                 iflag, rsp, rip, pre>>

\* a selector iretq may load into cs: inside the loaded table, not null, and
\* naming a present code descriptor
ValidCodeSelector(sel) ==
  /\ SelectorIndex(sel) \in 1..(GDT_ENTRIES - 1)
  /\ gdtr.loaded
  /\ SelectorIndex(sel) * GdtEntrySize + GdtEntrySize - 1 <= gdtr.size
  /\ BitAnd(gdt[SelectorIndex(sel)].access, GdtAccess_PRESENT) # 0
  /\ BitAnd(gdt[SelectorIndex(sel)].access, GdtAccess_EXECUTABLE) # 0

\* iretq: rip, cs, rflags, rsp, ss are popped from the five slots at rsp.  A cs
\* image that names no code descriptor raises #GP (vector 13) with the selector
\* as error code, the faulting instruction being the iretq itself.
ExecIretq ==
  /\ InTramp /\ Cur.op = "iretq"
  /\ LET nrip == mem[Slot(rsp)]
         ncs == mem[Slot(rsp + 8)]
         nflags == mem[Slot(rsp + 16)]
         nrsp == mem[Slot(rsp + 24)]
         nss == mem[Slot(rsp + 32)]
     IN  IF ValidCodeSelector(ncs % 65536)
         THEN /\ rip' = nrip
              /\ seg' = [seg EXCEPT !["cs"] = ncs % 65536, !["ss"] = nss % 65536]
              /\ iflag' = RflagsIF(nflags)
              /\ rsp' = nrsp
              /\ trap' = [trap EXCEPT !.state = "none", !.returned = TRUE]
              /\ mem' = mem
         ELSE /\ Deliver(13, BitAnd(ncs % 65536, 65528),
                         TrampRip(trap.handler, trap.ip), trap.origin, TRUE)
              /\ rip' = rip
  /\ UNCHANGED <<bootVars, gdt, gdtr, idtVars, idtHist, textBase, logVars, libVars, regs, pre, seen>>

\* spin::Mutex::lock inside a handler: the loop goes round while COM_1's lock is
\* held, and the holder is the code the handler interrupted
SpinOnCom1 ==
  /\ trap.state = "spin"
  /\ com1Lock
  /\ UNCHANGED vars

\* The CPU fetching the instruction at address 0, where an empty gate sends it:
\* the page is not mapped, so the fetch raises a page fault (vector 14), taken
\* through the IDT like any other trap, with the instruction-fetch bit (bit 4)
\* as its error code.  With no room left on the stack for the frame the fault
\* cannot be delivered, nor can the double fault that follows.
FetchAtNull ==
  /\ trap.state = "null"
  /\ IF (rsp \div 16) * 16 >= 8 * (Len(IretFields) + 1)
     THEN Deliver(14, 16, 0, trap.origin, TRUE)
     ELSE /\ trap' = [trap EXCEPT !.state = "triple_fault"]
          /\ UNCHANGED <<mem, rsp, iflag, seg>>
  /\ UNCHANGED <<bootVars, gdt, gdtr, idtVars, idtHist, textBase, logVars, libVars,
                 regs, rip, pre, seen>>

\* control is inside halt(): kmain's call, or the panic handler's
InHalt == (Running /\ pc \in {"halt", "panic_halt"}) \/ trap.state = "halted"

\* halt() with control returning to the code that was running before the halt
Halt_Returns ==
  /\ InHalt
  /\ trap' = [trap EXCEPT !.state = "none"]
  /\ UNCHANGED <<bootVars, gdtVars, idtVars, idtHist, textBase, logVars, libVars,
                 iflag, regs, rsp, rip, mem, pre, seen>>

\* halt(): loop { hlt }, entered by kmain and by the panic handler; whenever hlt
\* completes the loop executes it again
Halt ==
  /\ InHalt
  /\ UNCHANGED vars

TrampolineStep ==
  \/ ExecCld
  \/ ExecPush
  \/ ExecPop
  \/ ExecMovRsp
  \/ ExecLoad
  \/ ExecStore
  \/ ExecCall
  \/ ExecIretq

\* --------------------------------------------------------- specifications
\* the GDT after the segment loads of gdt::init
GdtAfterInit ==
  [i \in 0..(GDT_ENTRIES - 1) |->
     IF i = 0 THEN GDT[i]
     ELSE [GDT[i] EXCEPT !.access = BitOr(@, GdtAccess_ACCESSED)]]

KernelSeg ==
  [r \in {"cs", "ds", "es", "fs", "gs", "ss"} |->
     IF r = "cs" THEN KERNEL_CODE_SELECTOR ELSE KERNEL_DATA_SELECTOR]

\* The boot run as the code performs it.
Next ==
  \/ DisableInterrupts
  \/ UartInit
  \/ LoggerInit
  \/ LoadGdt
  \/ LoadCs
  \/ LoadDs
  \/ LoadEs
  \/ LoadFs
  \/ LoadGs
  \/ LoadSs
  \/ IdtInit
  \/ KmainLogLock
  \/ KmainLogWrite
  \/ KmainEnter
  \/ PixelWrite
  \/ EnableInterrupts
  \/ Halt
  \/ Trap
  \/ FetchAtNull

Spec == Init /\ [][Next]_vars

\* The IDT interface driven by a caller: any sequence of set_handler and
\* register_exceptions calls on the table Idt::new() built.
InitIdtApi ==
  /\ pc = "idt_api"
  /\ trace = <<>>
  /\ fbi = 0
  /\ com1 = FALSE
  /\ loggerSet = FALSE
  /\ gdt = GdtAfterInit
  /\ gdtr = [loaded |-> TRUE, size |-> GdtDescriptor.size]
  /\ seg = KernelSeg
  /\ InitIdt
  /\ InitCpuIdle
  /\ InitLog
  /\ InitLib

NextIdtApi ==
  \/ CallSetHandler
  \/ CallRegisterExceptions

SpecIdt == InitIdtApi /\ [][NextIdtApi]_vars

\* The trampolines driven by traps, once register_exceptions and idt::init
\* have run after gdt::init.
InitTrap ==
  /\ pc = "register"
  /\ trace = <<>>
  /\ fbi = 0
  /\ com1 = TRUE
  /\ loggerSet = TRUE
  /\ gdt = GdtAfterInit
  /\ gdtr = [loaded |-> TRUE, size |-> GdtDescriptor.size]
  /\ seg = KernelSeg
  /\ InitIdt
  /\ InitCpu
  /\ InitLog
  /\ InitLib

NextTrap ==
  \/ CallRegisterExceptions
  \/ IdtInit
  \/ KmainLogLock
  \/ KmainLogWrite
  \/ Trap
  \/ FetchAtNull
  \/ TrampolineStep
  \/ SpinOnCom1
  \/ Halt

SpecTrap == InitTrap /\ [][NextTrap]_vars

\* The kernel halted after its bring-up, with the exceptions registered and a
\* caller's resuming interrupt_error! trampoline installed on one of the
\* vectors that carry an error code.
ResumingVectors == {11, 13}

InitResuming ==
  /\ pc = "halt"
  /\ trace = <<>>
  /\ fbi = 0
  /\ com1 = TRUE
  /\ loggerSet = TRUE
  /\ gdt = GdtAfterInit
  /\ gdtr = [loaded |-> TRUE, size |-> GdtDescriptor.size]
  /\ seg = KernelSeg
  /\ textBase \in LinkBases
  /\ \E v \in ResumingVectors :
       /\ idt = set_handler(register_exceptions(Idt_new, textBase), v,
                            HandlerAddr(textBase, ResumingHandler))
       /\ handlerOf = Remember(RememberFrom([x \in {} |-> BvZero(64)], textBase, 1),
                               v, HandlerAddr(textBase, ResumingHandler))
  /\ idtr = [loaded |-> TRUE, size |-> IdtDescriptor.size]
  /\ idtLock = FALSE
  /\ calls = 1
  /\ regRun = 0
  /\ InitCpu
  /\ InitLog
  /\ InitLib

NextResuming ==
  \/ Trap
  \/ FetchAtNull
  \/ TrampolineStep
  \/ Halt

SpecResuming == InitResuming /\ [][NextResuming]_vars

\* register_exceptions and idt::init called in any order on the boot thread,
\* followed through their use of the IDT lock.
InitIdtLock ==
  /\ pc = "idt_api"
  /\ trace = <<>>
  /\ fbi = 0
  /\ com1 = TRUE
  /\ loggerSet = TRUE
  /\ gdt = GdtAfterInit
  /\ gdtr = [loaded |-> TRUE, size |-> GdtDescriptor.size]
  /\ seg = KernelSeg
  /\ InitIdt
  /\ InitCpuIdle
  /\ InitLog
  /\ InitLib

NextIdtLock ==
  \/ RegisterLock
  \/ RegisterStore
  \/ IdtInitLock
  \/ IdtInitDescriptor
  \/ IdtInitLog
  \/ IdtInitLidt

SpecIdtLock == InitIdtLock /\ [][NextIdtLock]_vars

\* The helpers driven by a caller, outside any boot run.
InitHarness ==
  /\ pc = "lib"
  /\ trace = <<>>
  /\ fbi = 0
  /\ com1 = FALSE
  /\ loggerSet = FALSE
  /\ gdt = GDT
  /\ gdtr = [loaded |-> FALSE, size |-> 0]
  /\ seg = BootSeg
  /\ InitIdt
  /\ InitCpuIdle
  /\ InitLog

InitAddr ==
  /\ InitHarness
  /\ InitLib

NextAddr ==
  \/ CallUartInit
  \/ CallSegmentSelectorNew
  \/ CallIdtEntryAttributesNew
  \/ CallAlignDown

SpecAddr == InitAddr /\ [][NextAddr]_vars

\* The frame allocator built on any memory map and driven by allocate_frame
\* calls.
InitFrames ==
  /\ InitHarness
  /\ ret = NoCall
  /\ \E m \in MemoryMaps : InitAlloc(m)
  /\ InitBootstrap(BootRanges)

NextFrames == AllocateFrame

SpecFrames == InitFrames /\ [][NextFrames]_vars

\* The bootstrap allocator built on any memory map and driven through its
\* Allocator interface.
InitBootstrapAlloc ==
  /\ InitHarness
  /\ ret = NoCall
  /\ textBase = <<0, 0, 32, 4096>>
  /\ InitAlloc(BootMap)
  /\ \E m \in RangeMaps : InitBootstrap(m)

NextBootstrapAlloc == BootstrapAllocRefAllocate

SpecBootstrap == InitBootstrapAlloc /\ [][NextBootstrapAlloc]_vars

\* ------------------------------------------------------------------ claims
\* the vectors of the 23 implemented exceptions
ImplementedVectors == (0..8) \cup (10..14) \cup (16..21) \cup (28..30)

\* the trampoline named for an exception vector
ExceptionName(v) ==
  CASE v = 0 -> "divide_by_zero"
    [] v = 1 -> "debug"
    [] v = 2 -> "non_maskable_interrupt"
    [] v = 3 -> "breakpoint"
    [] v = 4 -> "overflow"
    [] v = 5 -> "bound_range_exceeded"
    [] v = 6 -> "invalid_opcode"
    [] v = 7 -> "device_not_available"
    [] v = 8 -> "double_fault"
    [] v = 10 -> "invalid_tss"
    [] v = 11 -> "segment_not_present"
    [] v = 12 -> "stack_segment_fault"
    [] v = 13 -> "general_protection_fault"
    [] v = 14 -> "page_fault"
    [] v = 16 -> "x87_floating_point"
    [] v = 17 -> "alignment_check"
    [] v = 18 -> "machine_check"
    [] v = 19 -> "simd_floating_point"
    [] v = 20 -> "virtualization"
    [] v = 21 -> "control_protection"
    [] v = 28 -> "hypervisor_injection"
    [] v = 29 -> "vmm_communication"
    [] v = 30 -> "security_exception"
    [] OTHER -> "none"

AtIretq == InTramp /\ Cur.op = "iretq"

\* C1: a stack-style trampoline whose inner handler returned reaches iretq with
\* every general-purpose register at its pre-trap value and rsp at the rip slot
\* of the hardware frame, and after iretq rsp has its pre-trap value.
C1_StackTrampolineRestores ==
  /\ (AtIretq /\ ~trap.nested /\ HandlerStyle(trap.handler) = "stack")
       => /\ \A r \in GPRs : regs[r] = pre.regs[r]
          /\ rsp = pre.ripSlot
  /\ (trap.returned /\ HandlerStyle(trap.handler) = "stack")
       => /\ \A r \in GPRs : regs[r] = pre.regs[r]
          /\ rsp = pre.rsp

\* C2: the inner handler of an error-style trampoline is passed the error code
\* the CPU pushed, and every field of the frame it reads holds the pre-trap
\* value of the register of that name; the iret fields hold the hardware frame.
C2_ErrorTrampolineFrame ==
  (seen.valid /\ ~seen.nested /\ HandlerStyle(seen.handler) = "error")
    => /\ seen.err = pre.err
       /\ \A r \in ScratchRegs : seen.frame[<<"scratch", r>>] = pre.regs[r]
       /\ \A r \in PreservedRegs : seen.frame[<<"preserved", r>>] = pre.regs[r]
       /\ seen.frame[<<"iret", "rip">>] = pre.rip
       /\ seen.frame[<<"iret", "cs">>] = pre.cs
       /\ seen.frame[<<"iret", "rflags">>] = pre.rflags
       /\ seen.frame[<<"iret", "rsp">>] = pre.rsp
       /\ seen.frame[<<"iret", "ss">>] = pre.ss

\* C3: a breakpoint trap (vector 3) ends by resuming the interrupted code at the
\* saved rip and never in the halt state; a trap on any other registered vector
\* never resumes.
C3_BreakpointResumesOthersHalt ==
  /\ (trap.state = "halted" /\ pre.valid) => pre.vector # 3
  /\ trap.returned => (pre.vector = 3 /\ rip = pre.rip)

\* C4: once enable_interrupts has executed, register_exceptions has run and the
\* IDT is loaded with a trampoline behind each of the 23 exception vectors.
C4_EnabledOnlyOnceRegistered ==
  (\E k \in 1..Len(trace) : trace[k] = "sti")
    => /\ idtr.loaded
       /\ \E k \in 1..Len(trace) : trace[k] = "register_exceptions"
       /\ \A v \in ImplementedVectors :
            HandlerAt(textBase, EntryOffset(idt[v])) = ExceptionName(v)

BringUpPcs ==
  {"uart_init", "logger_init", "load_gdt", "load_cs", "load_ds", "load_es",
   "load_fs", "load_fs_again", "load_gs", "load_ss", "idt_init"}

\* C5: disable_interrupts is the first boot step; the interrupt flag is clear
\* all through gdt::init and idt::init; the IDT is loaded only after gdt::init
\* has loaded the GDT and every segment register; and interrupts are never
\* enabled while the GDT or the IDT is not loaded.
C5_InterruptsOffDuringBringUp ==
  /\ trace # <<>> => trace[1] = "cli"
  /\ pc \in BringUpPcs => ~iflag
  /\ idtr.loaded => (gdtr.loaded /\ seg = KernelSeg)
  /\ (\E k \in 1..Len(trace) : trace[k] = "sti") => (gdtr.loaded /\ idtr.loaded)
  /\ iflag => (gdtr.loaded /\ idtr.loaded)

C5_Witness == iflag /\ pc = "halt" /\ gdtr.loaded /\ idtr.loaded /\ Running

\* C6: register_exceptions on the all-empty IDT leaves the trampoline named for
\* the vector in each of the 23 implemented vectors and the empty entry in each
\* of the other 233.
C6_RegisterExceptionsPopulates ==
  (calls = 0 /\ regRun >= 1)
    => \A v \in 0..(IDT_ENTRIES - 1) :
         IF v \in ImplementedVectors
         THEN /\ HandlerAt(textBase, EntryOffset(idt[v])) = ExceptionName(v)
              /\ idt[v] # IdtEntry_EMPTY
         ELSE idt[v] = IdtEntry_EMPTY

C6_Witness ==
  /\ calls = 0
  /\ regRun = 1
  /\ HandlerAt(textBase, EntryOffset(idt[14])) = "page_fault"
  /\ idt[9] = IdtEntry_EMPTY

\* C7: a register_exceptions call that directly follows another one leaves all
\* 256 entries as they were.
C7_RegisterExceptionsIdempotent ==
  [][(regRun >= 1 /\ regRun' = regRun + 1) => idt' = idt]_vars

C7_Witness == regRun >= 2 /\ calls >= 1 /\ 9 \in DOMAIN handlerOf

\* C8: every entry written by set_handler reassembles, from its three offset
\* fields, to the handler address that was passed.
C8_SetHandlerOffsetRoundTrip ==
  \A v \in DOMAIN handlerOf : EntryOffset(idt[v]) = handlerOf[v]

C8_Witness ==
  /\ calls >= 1
  /\ \E v \in DOMAIN handlerOf \cap RegisteredVectors :
       /\ handlerOf[v] = U64(43981, 4660, 22136, 39612)
       /\ EntryOffset(idt[v]) = handlerOf[v]
       /\ idt[v].offset_low # BvZero(16)
       /\ idt[v].offset_middle # BvZero(16)
       /\ idt[v].offset_high # BvZero(32)

\* C9: every entry never passed to set_handler has handler offset 0 in all three
\* fields, the present bit set, the kernel code selector and IST index 0.
C9_UntouchedEntriesEmpty ==
  \A v \in (0..(IDT_ENTRIES - 1)) \ DOMAIN handlerOf :
    /\ EntryOffset(idt[v]) = BvZero(64)
    /\ idt[v].offset_low = BvZero(16)
    /\ idt[v].offset_middle = BvZero(16)
    /\ idt[v].offset_high = BvZero(32)
    /\ BitOf(idt[v].attributes, 7) = 1
    /\ idt[v].selector = KERNEL_CODE_SELECTOR
    /\ idt[v].ist = 0

C9_Witness ==
  /\ regRun >= 1
  /\ calls >= 1
  /\ 9 \notin DOMAIN handlerOf
  /\ 31 \in DOMAIN handlerOf

NullEntry ==
  [limit_low |-> 0, base_low |-> 0, base_middle |-> 0, access |-> 0,
   limit_high_flags |-> 0, base_high |-> 0]

\* C10 as stated: the access byte of all three GDT entries has its present bit
\* (bit 7) set, and the null entry (index 0) encodes all-zero fields.
C10_AllEntriesPresentAndNull ==
  /\ \A i \in 0..(GDT_ENTRIES - 1) : BitOf(gdt[i].access, 7) = 1
  /\ gdt[0] = NullEntry

\* C10 amended: the access byte of the two non-null GDT entries (index 1 and 2)
\* has its present bit set, and the null entry (index 0) encodes all-zero fields.
C10_SegmentsPresentAndNull ==
  /\ \A i \in 1..(GDT_ENTRIES - 1) : BitOf(gdt[i].access, 7) = 1
  /\ gdt[0] = NullEntry

C10_Witness ==
  /\ gdtr.loaded
  /\ seg = KernelSeg
  /\ BitOf(gdt[1].access, 0) = 1
  /\ BitOf(gdt[2].access, 0) = 1

\* C11: SegmentSelector::new(index, privilege) is (index << 3) | privilege, and
\* decoding it (value >> 3, value & 3) gives back index and privilege, for
\* every index below 3 and both privilege levels; the kernel code selector is
\* 0x08 and the kernel data selector 0x10.
C11_SelectorRoundTrip ==
  /\ ret.fn = "SegmentSelector::new"
       => /\ ret.res.ok
          /\ ret.res.val = 8 * ret.a + ret.b
          /\ ret.res.val \div 8 = ret.a
          /\ ret.res.val % 4 = ret.b
  /\ KERNEL_CODE_SELECTOR = 8
  /\ KERNEL_DATA_SELECTOR = 16

C11_Witness ==
  /\ ret.fn = "SegmentSelector::new"
  /\ ret.a = 2
  /\ ret.b = PrivilegeUser
  /\ ret.res.val = 19

SegLoads == {"load_cs", "load_ds", "load_es", "load_fs", "load_gs", "load_ss"}

\* C12: gdt::init executes lgdt before it reloads any segment register, and once
\* it has returned cs holds the kernel code selector (index 1) and ds, es, fs,
\* gs, ss hold the kernel data selector (index 2): none holds the selector it
\* had on entry or the null selector.
C12_GdtInitReloadsSegments ==
  /\ \A k \in 1..Len(trace) :
       trace[k] \in SegLoads => \E j \in 1..(k - 1) : trace[j] = "lgdt"
  /\ (\E r \in DOMAIN seg : seg[r] # BootSeg[r]) => gdtr.loaded
  /\ (\E k \in 1..Len(trace) : trace[k] = "load_ss")
       => /\ seg["cs"] = 8
          /\ SelectorIndex(seg["cs"]) = 1
          /\ \A r \in {"ds", "es", "fs", "gs", "ss"} :
               seg[r] = 16 /\ SelectorIndex(seg[r]) = 2
          /\ \A r \in DOMAIN seg : seg[r] # BootSeg[r] /\ SelectorIndex(seg[r]) # 0

C12_Witness ==
  /\ pc = "idt_init"
  /\ trace[Len(trace)] = "load_ss"
  /\ seg = KernelSeg
  /\ gdtr.loaded

\* C13: a handler is never left waiting for COM_1's lock while the code it
\* interrupted holds that lock.
C13_HandlerNeverBlocksOnCom1 == ~(trap.state = "spin" /\ com1Lock)

\* C14: when register_exceptions returns each of the vectors 8, 10-14, 17, 21, 29, 30 is bound
\* to an error-style trampoline and each of the vectors 0-7, 16, 18, 19, 20, 28
\* to a stack-style one, and a trap on a registered vector runs a trampoline of
\* the shape of its vector.
C14_ShapeMatchesErrorCode ==
  /\ (regRun >= 1 /\ pc = "idt_init")
       => /\ \A v \in {8, 10, 11, 12, 13, 14, 17, 21, 29, 30} :
               /\ HandlerAt(textBase, EntryOffset(idt[v])) \in Handlers
               /\ HandlerStyle(HandlerAt(textBase, EntryOffset(idt[v]))) = "error"
          /\ \A v \in (0..7) \cup {16, 18, 19, 20, 28} :
               /\ HandlerAt(textBase, EntryOffset(idt[v])) \in Handlers
               /\ HandlerStyle(HandlerAt(textBase, EntryOffset(idt[v]))) = "stack"
          /\ RegisteredVectors =
               {8, 10, 11, 12, 13, 14, 17, 21, 29, 30} \cup (0..7) \cup {16, 18, 19, 20, 28}
  /\ (InTramp /\ trap.vector \in RegisteredVectors)
       => (Program(trap.handler) = interrupt_error
             <=> trap.vector \in {8, 10, 11, 12, 13, 14, 17, 21, 29, 30})

C14_Witness ==
  /\ InTramp
  /\ ~trap.nested
  /\ trap.vector = 17
  /\ Program(trap.handler) = interrupt_error
  /\ Cur.op = "call"

\* C15: no step after gdt::init has returned changes a GDT entry (the accessed
\* bits the CPU writes are set during gdt::init), no step taken with interrupts
\* enabled changes an IDT entry, and no IDT entry changes once
\* enable_interrupts has executed.
C15_TablesWriteOnce ==
  [][/\ (\E k \in 1..Len(trace) : trace[k] = "load_ss") => gdt' = gdt
     /\ iflag => idt' = idt
     /\ (\E k \in 1..Len(trace') : trace'[k] = "sti") => idt' = idt]_vars

C15_Witness ==
  /\ iflag
  /\ pc = "halt"
  /\ \E k \in 1..Len(trace) : trace[k] = "sti"
  /\ gdt = GdtAfterInit
  /\ idt = Idt_new
  /\ Running

\* C16: a set_handler(vector, f) call (the step that records f as the handler
\* last passed for vector) leaves at index vector a descriptor with offset f, the
\* kernel code selector, attributes 0x8E (present, kernel privilege, interrupt
\* gate) and IST index 0, and leaves the other 255 entries as they were.
C16_SetHandlerFrame ==
  [][calls' = calls + 1
       => \E v \in DOMAIN handlerOf' :
            /\ handlerOf' = Remember(handlerOf, v, handlerOf'[v])
            /\ EntryOffset(idt'[v]) = handlerOf'[v]
            /\ idt'[v].selector = KERNEL_CODE_SELECTOR
            /\ idt'[v].attributes = 142
            /\ idt'[v].ist = 0
            /\ \A u \in (0..(IDT_ENTRIES - 1)) \ {v} : idt'[u] = idt[u]]_vars

C16_Witness ==
  /\ calls >= 1
  /\ regRun = 0
  /\ 14 \in DOMAIN handlerOf
  /\ EntryOffset(idt[14]) = U64(43981, 4660, 22136, 39612)
  /\ HandlerAt(textBase, EntryOffset(idt[13])) = "general_protection_fault"

\* C17: a trap into an empty vector sends control to address 0, the page fault
\* this raises is dispatched to the page_fault trampoline, and the CPU never
\* runs out of stack delivering fault after fault.
C17_EmptyVectorReachesPageFault ==
  /\ trap.state # "triple_fault"
  /\ (pre.valid /\ trap.nested /\ trap.vector = 14
        /\ EntryOffset(idt[pre.vector]) = BvZero(64))
       => trap.handler = "page_fault"

\* C18: whenever a handler is in the halt state the three register groups of
\* the dump and then the panic line are the last lines written to the serial
\* port, and from the halt state control never goes anywhere else: the handler
\* stays halted and the interrupted code does not move.
C18_DumpThenPermanentHalt ==
  /\ [](trap.state = "halted"
          => /\ Len(sink) >= 4
             /\ SubSeq(sink, Len(sink) - 3, Len(sink))
                  = <<"dump scratch", "dump preserved", "dump iret", "KERNEL PANIC">>)
  /\ [][trap.state = "halted"
          => (trap'.state = "halted" /\ pc' = pc /\ rip' = rip /\ sink' = sink)]_vars

C18_Witness ==
  /\ trap.state = "halted"
  /\ ~trap.nested
  /\ trap.handler = "double_fault"
  /\ sink[Len(sink)] = "KERNEL PANIC"

\* C19: align_down(align) returns Err(InvalidAlign), and does not panic, for
\* every align that is not a power of two (0 included), and for a power of two
\* returns Ok(r) with r the greatest multiple of align not above the address.
C19_AlignDown ==
  ret.fn = "align_down"
    => IF \E k \in 0..AddrBits : ret.b = 2^k
       THEN /\ ret.res.ok
            /\ ret.res.val % ret.b = 0
            /\ ret.res.val <= ret.a
            /\ ret.a < ret.res.val + ret.b
       ELSE ret.res = [ok |-> FALSE, err |-> "InvalidAlign", val |-> 0]

C19_Witness ==
  /\ ret.fn = "align_down"
  /\ ret.a = 29
  /\ ret.b = 8
  /\ ret.res.ok
  /\ ret.res.val = 24

\* C20: the frames allocate_frame has returned are pairwise distinct and each
\* of them, [start, start + SIZE), lies inside one USABLE entry of the memory
\* map.
C20_FramesFreeAndUsable ==
  /\ \A i \in 1..Len(allocated) : \A j \in 1..Len(allocated) :
       (i # j /\ allocated[i].ok /\ allocated[j].ok)
         => allocated[i].val # allocated[j].val
  /\ \A i \in 1..Len(allocated) :
       allocated[i].ok
         => \E k \in 1..Len(mmap) :
              /\ mmap[k].entry_type = "USABLE"
              /\ mmap[k].base <= allocated[i].val
              /\ allocated[i].val + 4096 <= mmap[k].base + mmap[k].length

\* Err(FrameAllocatorError::NoFreeFrames)
NoFreeFrames == ResultErr("NoFreeFrames")

\* no USABLE entry reaches above the allocator's cursor
FreeMemoryExhausted ==
  \A k \in 1..Len(mmap) :
    mmap[k].entry_type = "USABLE" => mmap[k].base + mmap[k].length <= current_base

\* C21: allocate_frame returns NoFreeFrames once all free memory is exhausted;
\* a call that returns NoFreeFrames leaves current_base and current_end
\* unchanged, and every call after it returns NoFreeFrames too.
C21_NoFreeFramesIsFinal ==
  [][allocated' # allocated =>
       LET r == allocated'[Len(allocated')]
       IN  /\ FreeMemoryExhausted => r = NoFreeFrames
           /\ r = NoFreeFrames => UNCHANGED <<current_base, current_end>>
           /\ (Len(allocated) > 0 /\ allocated[Len(allocated)] = NoFreeFrames)
                => r = NoFreeFrames]_vars

C21_Witness ==
  /\ Len(allocated) >= 3
  /\ allocated[Len(allocated) - 2].ok
  /\ allocated[Len(allocated) - 1] = NoFreeFrames
  /\ allocated[Len(allocated)] = NoFreeFrames
  /\ FreeMemoryExhausted

\* the whole frames of a memory-map entry, by start address
WholeFrames(e) ==
  {e.base + FrameSize4K_SIZE * i : i \in 0..((e.length \div FrameSize4K_SIZE) - 1)}

\* C27: when allocate_frame returns NoFreeFrames for the first time, every
\* whole frame of every USABLE entry has been returned exactly once, and the
\* frames were returned in increasing address order (a USABLE entry that
\* starts where the previous region ends included).
C27_NoUsableMemorySkipped ==
  \A n \in 1..Len(allocated) :
    (allocated[n] = NoFreeFrames /\ \A i \in 1..(n - 1) : allocated[i].ok)
      => /\ \A k \in 1..Len(mmap) :
              mmap[k].entry_type = "USABLE"
                => \A f \in WholeFrames(mmap[k]) :
                     Cardinality({i \in 1..(n - 1) : allocated[i].val = f}) = 1
         /\ \A i \in 1..(n - 1) : \A j \in 1..(n - 1) :
              i < j => allocated[i].val < allocated[j].val

\* C22: every address BootstrapAllocRef::allocate returns for a layout, over
\* Free ranges with frame-aligned bases, is a multiple of the greater of the
\* layout's alignment and the frame size.
C22_AllocationsAligned ==
  (/\ ret.fn = "BootstrapAllocRef::allocate"
   /\ ret.res.ok
   /\ \A k \in 1..Len(initial_map) :
        initial_map[k].entry_type = "Free"
          => initial_map[k].base % FrameSize4K_SIZE = 0)
    => ret.res.val % (IF ret.b > FrameSize4K_SIZE THEN ret.b
                      ELSE FrameSize4K_SIZE) = 0

\* the bytes [addr, addr + size) of block b lie in range e
BlockInside(b, e) ==
  /\ e.base <= b.addr
  /\ b.addr + b.size <= e.base + e.length

\* C28: after any sequence of BootstrapAlloc::allocate calls every range keeps
\* its end (base + length) and its base never decreases; only Free ranges are
\* modified; the blocks handed out are pairwise disjoint and each lies inside
\* the initial extent of a Free range; a call that returns None leaves the
\* memory map unchanged.
C28_BootstrapCarvesFreeRanges ==
  /\ [](/\ Len(memory_map) = Len(initial_map)
        /\ \A k \in 1..Len(memory_map) :
             /\ memory_map[k].base + memory_map[k].length
                  = initial_map[k].base + initial_map[k].length
             /\ memory_map[k].entry_type = initial_map[k].entry_type
             /\ memory_map[k].entry_type # "Free" => memory_map[k] = initial_map[k]
        /\ \A i \in 1..Len(blocks) : \A j \in 1..Len(blocks) :
             i < j => \/ blocks[i].addr + blocks[i].size <= blocks[j].addr
                      \/ blocks[j].addr + blocks[j].size <= blocks[i].addr
        /\ \A i \in 1..Len(blocks) :
             \E k \in 1..Len(initial_map) :
               /\ initial_map[k].entry_type = "Free"
               /\ BlockInside(blocks[i], initial_map[k]))
  /\ [][/\ \A k \in 1..Len(memory_map) : memory_map'[k].base >= memory_map[k].base
         /\ ~ret'.res.ok => memory_map' = memory_map]_vars

C28_Witness ==
  /\ Len(blocks) = 2
  /\ blocks[1].size > 0
  /\ blocks[2].size > 0
  /\ ret.fn = "BootstrapAllocRef::allocate"
  /\ ~ret.res.ok
  /\ \E k \in 1..Len(initial_map) : initial_map[k].entry_type = "Reserved"
  /\ \E k \in 1..Len(initial_map) :
       /\ initial_map[k].entry_type = "Free"
       /\ memory_map[k].base > initial_map[k].base
       /\ memory_map[k].length > 0

\* C26: for each privilege level p (Kernel = 0, User = 3) the byte
\* IdtEntryAttributes::new(p) yields has the present bit (bit 7) set, the
\* interrupt-gate type 0xE in bits 0-3 and p in the descriptor-privilege
\* field (bits 5-6).
C26_AttributesEncodePrivilege ==
  ret.fn = "IdtEntryAttributes::new"
    => /\ BitOf(ret.res.val, 7) = 1
       /\ ret.res.val % 16 = INTERRUPT_GATE
       /\ (ret.res.val \div 32) % 4 = ret.a

\* C23: drivers::uart::init() panics when COM1 has already been initialized:
\* after one call has returned, no second call returns.
C23_SecondInitPanics ==
  Cardinality({i \in 1..Len(trace) : trace[i] = "uart_init"}) <= 1

\* C24: register_exceptions takes the IDT lock once, makes its set_handler
\* calls while holding it and releases it when it returns; idt::init releases
\* the lock before it returns (before it logs and loads). After any sequence
\* of these calls the lock is free, and no call spins on it for ever.
C24_IdtLockReleased ==
  /\ [](/\ pc # "idt_lock_spin"
        /\ pc \in {"idt_api", "idt_init_log", "idt_init_lidt"} => ~idtLock
        /\ pc \in {"registering", "idt_init_locked"} => idtLock)
  /\ [][(idt' # idt => (idtLock /\ pc = "registering" /\ pc' = "idt_api"))
         /\ ((idtLock' /\ ~idtLock) => pc = "idt_api")]_vars

C24_Witness ==
  /\ pc = "idt_api"
  /\ ~idtLock
  /\ trace = <<"register_exceptions", "lidt", "register_exceptions", "lidt">>
  /\ idtr.loaded
  /\ idt # Idt_new

\* C25: an error-style trampoline whose inner handler returned reaches iretq
\* with the 14 pushed registers and the error-code/rax slot removed: rsp
\* points at the saved rip and rax holds its pre-trap value.
C25_ErrorEpilogueRestores ==
  (AtIretq /\ ~trap.nested /\ HandlerStyle(trap.handler) = "error")
    => /\ rsp = pre.ripSlot
       /\ regs["rax"] = pre.regs["rax"]

=============================================================================
